---- MODULE Spec2Model ----
(***************************************************************************)
(* A model of text_creator.py: the AudioRecorder (start_recording,         *)
(* stop_recording, the capture thread _record_audio and its               *)
(* audio_callback), and the TextCreatorApp handlers that drive it          *)
(* (toggle_recording on the hotkey thread, save_settings / update_config   *)
(* and quit_application on the GUI thread).                                *)
(*                                                                         *)
(* Every controller thread has a program counter pc[t]; a handler is a     *)
(* chain of steps, one per block of source lines.  Failures of the         *)
(* environment (credential probe, device query, thread start, stream open, *)
(* numpy/soundfile, the remote call, unlink, file writes) are inputs       *)
(* chosen with \E.                                                         *)
(*                                                                         *)
(* Spec runs the application's handlers one after another, RecorderSpec    *)
(* calls the recorder's methods directly, ConfigSpec calls the config      *)
(* store's methods directly, and ConcurrentSpec lets the hotkey thread and *)
(* the GUI thread run their handlers side by side.                         *)
(***************************************************************************)
EXTENDS Integers, Sequences, FiniteSets, TLC

\* ------------------------------------------------------------------ bounds
MaxEvents == 3      \* hotkey presses + settings saves + quits + direct calls
MaxSaves == 1       \* settings saves among the events
MaxFrames == 2      \* input frames the audio device delivers in a run
FrameLen == 2       \* samples per frame (blocksize), scaled down

\* ------------------------------------------------------------- environment
Threads == {"hotkey", "gui", "caller"}
Workers == 1..MaxEvents          \* one Thread object per start at most
None == 0                        \* recording_thread = None
NoClient == "None"               \* client = None

DefaultHotkey == "ctrl+alt+d"
SensitiveKeys == {"hotkey", "api_key"}
MainKeys == {"model", "language", "energy_threshold", "record_timeout", "phrase_timeout"}

DEFAULT_MAIN_CONFIG ==
    [k \in MainKeys |->
        CASE k = "model" -> "whisper-1"
          [] k = "language" -> "en"
          [] k = "energy_threshold" -> "500"
          [] k = "record_timeout" -> "2.0"
          [] k = "phrase_timeout" -> "3.0"]

DEFAULT_SENSITIVE_CONFIG == [k \in SensitiveKeys |-> ""]

\* A file on disk: <<>> when it does not exist, <<doc>> when it holds doc.
NoFile == <<>>
FileOf(doc) == <<doc>>

\* dict.update / {**a, **b}: b's entries over a's.
DictUpdate(a, b) ==
    [k \in (DOMAIN a) \cup (DOMAIN b) |-> IF k \in DOMAIN b THEN b[k] ELSE a[k]]

LoadConfig(mainf, sensf) ==
    LET main_config == IF mainf = NoFile THEN DEFAULT_MAIN_CONFIG
                       ELSE DictUpdate(DEFAULT_MAIN_CONFIG, mainf[1])
        sensitive_config == IF sensf = NoFile THEN DEFAULT_SENSITIVE_CONFIG
                            ELSE DictUpdate(DEFAULT_SENSITIVE_CONFIG, sensf[1])
    IN  DictUpdate(main_config, sensitive_config)

\* Mutant of MainPart: only the keys the program knows go to the general file.
MainPart_KnownKeys(cfg) == [k \in (DOMAIN cfg) \cap MainKeys |-> cfg[k]]

MainPart(cfg) == [k \in (DOMAIN cfg) \ SensitiveKeys |-> cfg[k]]
SensitivePart(cfg) == [k \in (DOMAIN cfg) \cap SensitiveKeys |-> cfg[k]]

\* `not api_key or not api_key.strip() or 'your-api-key' in api_key`
NoValidKey(key) == key \in {"", " ", "your-api-key-here"}
\* client.models.list(): a revoked or mistyped key is refused; a good key
\* passes unless the network fails.
ProbeOutcomes(key) == IF key = "sk-good" THEN {TRUE, FALSE} ELSE {FALSE}

\* keyboard.add_hotkey raises ValueError on a string it cannot parse.
Parsable(hk) == hk \in {"f9", "ctrl+alt+d"}

\* ------------------------------------------------------------------ strings
\* Transcripts are sequences of characters, so that strip() is computed.
IsSpace(c) == c = " "

RECURSIVE LStrip(_)
LStrip(s) == IF s # <<>> /\ IsSpace(Head(s)) THEN LStrip(Tail(s)) ELSE s

RECURSIVE RStrip(_)
RStrip(s) ==
    IF s # <<>> /\ IsSpace(s[Len(s)]) THEN RStrip(SubSeq(s, 1, Len(s) - 1)) ELSE s

Strip(s) == RStrip(LStrip(s))

\* response.text values the remote service may return.
ResponseTexts == { <<>>, <<" ">>, <<" ", "h", "i", " ">>, <<"h", "i">> }

\* What the remote call may fail with (str(e) of the exception), and the
\* AttributeError of `self.client.audio` when client is None.
NoError == "no error"
RemoteErrors == {"401 invalid_api_key", "Connection error."}
AttributeError == "'NoneType' object has no attribute 'audio'"

\* ------------------------------------------------------------------- frames
\* The k-th frame the device delivers: FrameLen consecutive sample numbers.
Frame(k) == [i \in 1..FrameLen |-> (k - 1) * FrameLen + i]

RECURSIVE Concatenate(_)
Concatenate(chunks) ==
    IF chunks = <<>> THEN <<>> ELSE Head(chunks) \o Concatenate(Tail(chunks))

\* ----------------------------------------------------------------- messages
MsgNoKey == "Error: No valid OpenAI API key found in config"
MsgProbe == "Error testing OpenAI API"
MsgInitFailed == "Error: Failed to initialize OpenAI client. Please check your API key."
MsgRecording == "Recording..."
MsgStartError == "Error in start_recording"
MsgNoAudio == "No audio recorded"
MsgTranscribing == "Transcribing..."
MsgComplete == "Transcription complete"
MsgTranscriptionError == "Error in transcription"
MsgStreamError == "Error in audio stream"
MsgKeyUpdated == "API key updated successfully"
MsgKeyFailed == "Error: Failed to initialize with new API key"
MsgSaveMain == "Error saving main config"
MsgSaveSensitive == "Error saving sensitive config"

Status(msg) == <<"status_update", msg>>
\* f"{prefix}: {str(e)}": a status message that carries the exception's text.
ErrorStatus(prefix, e) == <<"status_update", prefix, e>>
\* The exception text a status message carries, "" when it carries none.
Reason(sig) == IF Len(sig) = 3 THEN sig[3] ELSE ""
StateChanged(b) == <<"recording_state_changed", IF b THEN "True" ELSE "False">>

\* --------------------------------------------------------------------- state
VARIABLES
    config,            \* TextCreatorApp.config, the dict AudioRecorder.config aliases
    main_file,         \* MAIN_CONFIG_FILE
    sensitive_file,    \* SENSITIVE_CONFIG_FILE
    hooks,             \* the keyboard library's registered hotkeys
    settings_open,     \* a SettingsWindow is shown
    app_is_recording,  \* TextCreatorApp.is_recording
    is_recording,      \* AudioRecorder.is_recording
    audio_data,        \* AudioRecorder.audio_data
    recording_thread,  \* AudioRecorder.recording_thread
    client,            \* AudioRecorder.client (the key it was built with)
    wpc,               \* each Thread object's position in _record_audio
    next_frame,        \* number of the next frame the device delivers
    pc,                \* each controller thread's position
    op,                \* the handler each controller thread is running
    ret,               \* return value of the thread's last recorder call
    joining,           \* the Thread object a stop_recording call joins
    audio_np,          \* stop_recording's local audio_np
    tmp,               \* stop_recording's local f.name
    temp_files,        \* temporary files that exist on disk
    signals,           \* signals each thread emitted in its current handler
    written,           \* keyboard.write calls of the current handler
    printed,           \* error lines _save_config printed in the current handler
    new_config,        \* save_settings in progress: what the window's fields held (l.607-611)
    probe,             \* save_settings in progress: the branch the key took (l.615, l.625-636)
    response,          \* save_settings in progress: the answer to 'Save Anyway?' (l.649)
    prompts,           \* QTimer.singleShot(_show_api_key_settings) scheduled
    requests,          \* transcription requests sent for the current session
    uploaded,          \* the waveform the thread's request carried
    error,             \* the exception the thread's stop_recording caught (l.279)
    captured,          \* numbers of the frames the callback kept in this session
    pre,               \* recorder state when the thread's recorder call began
    events,            \* events so far (bounded by MaxEvents)
    saves,             \* settings saves so far (bounded by MaxSaves)
    quit               \* QApplication.quit() was called

recorder_vars == <<is_recording, audio_data, recording_thread, client>>
app_vars == <<config, main_file, sensitive_file, hooks, settings_open, app_is_recording>>
worker_vars == <<wpc, next_frame>>
local_vars == <<pc, op, ret, joining, audio_np, tmp>>
settings_vars == <<new_config, probe, response>>
world_vars == <<temp_files, signals, written, printed, settings_vars, prompts,
               requests, uploaded, error>>
ghost_vars == <<captured, pre, events, saves, quit>>

vars == <<recorder_vars, app_vars, worker_vars, local_vars, world_vars, ghost_vars>>

\* No save_settings call is in progress.
NoNewConfig == [hotkey |-> "", language |-> "", api_key |-> ""]

NoRet == [kind |-> "none", text |-> <<>>]
RetBool(b) == [kind |-> IF b THEN "True" ELSE "False", text |-> <<>>]
RetText(s) == [kind |-> "text", text |-> s]
RetRaise == [kind |-> "raise", text |-> <<>>]

NoPre == [is_recording |-> FALSE, audio_data |-> <<>>, recording_thread |-> None,
          client |-> NoClient, signals |-> <<>>]
Snapshot(t) == [is_recording |-> is_recording, audio_data |-> audio_data,
                recording_thread |-> recording_thread, client |-> client,
                signals |-> signals[t]]

Emit(t, msgs) == signals' = [signals EXCEPT ![t] = @ \o msgs]

Return(t, where, r) ==
    /\ pc' = [pc EXCEPT ![t] = where]
    /\ ret' = [ret EXCEPT ![t] = r]

\* ------------------------------------------------------------ config store
\* _save_config: the two writes, each of which may fail (and is then only
\* printed); a failed open leaves the file as it was.
SaveConfig(cfg, mf, sf, main_ok, sens_ok) ==
    [main_file |-> IF main_ok THEN FileOf(MainPart(cfg)) ELSE mf,
     sensitive_file |-> IF sens_ok THEN FileOf(SensitivePart(cfg)) ELSE sf,
     printed |-> (IF main_ok THEN <<>> ELSE <<MsgSaveMain>>)
                 \o (IF sens_ok THEN <<>> ELSE <<MsgSaveSensitive>>)]

\* register_hotkey: unhook_all, default an empty hotkey (and save it), bind.
RegisterHotkey(cfg, mf, sf, main_ok, sens_ok) ==
    LET defaulted == cfg["hotkey"] = ""
        cfg1 == IF defaulted THEN [cfg EXCEPT !["hotkey"] = DefaultHotkey] ELSE cfg
        files == IF defaulted THEN SaveConfig(cfg1, mf, sf, main_ok, sens_ok)
                 ELSE [main_file |-> mf, sensitive_file |-> sf, printed |-> <<>>]
    IN  [config |-> cfg1,
         main_file |-> files.main_file,
         sensitive_file |-> files.sensitive_file,
         printed |-> files.printed,
         hooks |-> IF Parsable(cfg1["hotkey"]) THEN <<cfg1["hotkey"]>> ELSE <<>>]

\* _init_openai_client: the new client, the result and the status messages.
init_openai_client(cur, api_key, probe_ok) ==
    IF NoValidKey(api_key)
    THEN [ok |-> FALSE, client |-> cur, msgs |-> <<Status(MsgNoKey)>>]
    ELSE IF probe_ok
         THEN [ok |-> TRUE, client |-> api_key, msgs |-> <<>>]
         ELSE [ok |-> FALSE, client |-> NoClient, msgs |-> <<Status(MsgProbe)>>]

\* --------------------------------------------------------------------- Init
\* The config files found at startup.
InitialFiles ==
    { <<NoFile, NoFile>>,
      <<FileOf(DEFAULT_MAIN_CONFIG), FileOf([hotkey |-> "f9", api_key |-> "sk-good"])>>,
      <<FileOf(DEFAULT_MAIN_CONFIG), FileOf([hotkey |-> "f9", api_key |-> "sk-bad"])>> }

\* The state after TextCreatorApp.__init__.
Init ==
    \E files \in InitialFiles, main_ok \in BOOLEAN, sens_ok \in BOOLEAN :
      LET cfg0 == LoadConfig(files[1], files[2]) IN
      \E probe_ok \in ProbeOutcomes(cfg0["api_key"]) :
        LET c == init_openai_client(NoClient, cfg0["api_key"], probe_ok)
            reg == RegisterHotkey(cfg0, files[1], files[2], main_ok, sens_ok)
        IN  /\ (cfg0["hotkey"] # "" => main_ok /\ sens_ok)
            /\ config = reg.config
            /\ main_file = reg.main_file
            /\ sensitive_file = reg.sensitive_file
            /\ hooks = reg.hooks
            /\ settings_open = (cfg0["api_key"] = "" \/ cfg0["hotkey"] = "")
            /\ app_is_recording = FALSE
            /\ is_recording = FALSE
            /\ audio_data = <<>>
            /\ recording_thread = None
            /\ client = c.client
            /\ wpc = [w \in Workers |-> "none"]
            /\ next_frame = 1
            /\ pc = [t \in Threads |-> "idle"]
            /\ op = [t \in Threads |-> "idle"]
            /\ ret = [t \in Threads |-> NoRet]
            /\ joining = [t \in Threads |-> None]
            /\ audio_np = [t \in Threads |-> <<>>]
            /\ tmp = [t \in Threads |-> 0]
            /\ temp_files = {}
            /\ signals = [t \in Threads \cup {"worker"} |-> <<>>]
            /\ written = <<>>
            /\ printed = <<>>
            /\ new_config = NoNewConfig
            /\ probe = "none"
            /\ response = ""
            /\ prompts = 0
            /\ requests = 0
            /\ uploaded = [t \in Threads |-> <<>>]
            /\ error = [t \in Threads |-> NoError]
            /\ captured = <<>>
            /\ pre = [t \in Threads |-> NoPre]
            /\ events = 0
            /\ saves = 0
            /\ quit = FALSE

\* ------------------------------------------------- AudioRecorder.start_recording
\* Mutant of StartCheck: the buffer is cleared before the guard is tested.
StartCheck_ClearsFirst(t) ==
    /\ pc[t] = "start_check"
    /\ pre' = [pre EXCEPT ![t] = Snapshot(t)]
    /\ audio_data' = <<>>
    /\ IF is_recording
       THEN Return(t, "start_return", RetBool(FALSE))
       ELSE /\ pc' = [pc EXCEPT ![t] = "start_client"]
            /\ UNCHANGED ret
    /\ UNCHANGED <<is_recording, recording_thread, client, app_vars, worker_vars, op,
                   joining, audio_np, tmp, world_vars, captured, events, saves, quit>>

\* l.200-202: the guard.
StartCheck(t) ==
    /\ pc[t] = "start_check"
    /\ pre' = [pre EXCEPT ![t] = Snapshot(t)]
    /\ IF is_recording
       THEN Return(t, "start_return", RetBool(FALSE))
       ELSE /\ pc' = [pc EXCEPT ![t] = "start_client"]
            /\ UNCHANGED ret
    /\ UNCHANGED <<recorder_vars, app_vars, worker_vars, op, joining, audio_np, tmp,
                   world_vars, captured, events, saves, quit>>

\* Mutant of StartClient: the failure is reported but the `return False` of
\* l.212 is missing, so start_recording goes on.
StartClient_FallsThrough(t) ==
    /\ pc[t] = "start_client"
    /\ IF client # NoClient
       THEN /\ pc' = [pc EXCEPT ![t] = "start_devices"]
            /\ UNCHANGED <<client, signals, prompts, ret>>
       ELSE \E probe_ok \in ProbeOutcomes(config["api_key"]) :
              LET c == init_openai_client(client, config["api_key"], probe_ok) IN
              /\ client' = c.client
              /\ pc' = [pc EXCEPT ![t] = "start_devices"]
              /\ UNCHANGED ret
              /\ IF c.ok
                 THEN /\ Emit(t, c.msgs)
                      /\ UNCHANGED prompts
                 ELSE /\ Emit(t, c.msgs \o <<Status(MsgInitFailed)>>)
                      /\ prompts' = prompts + 1
    /\ UNCHANGED <<is_recording, audio_data, recording_thread, app_vars,
                   worker_vars, op, joining, audio_np, tmp,
                   temp_files, written, printed, settings_vars, requests,
                   uploaded, error, ghost_vars>>

\* l.205-212: `if not self.client and not self._init_openai_client()`.
StartClient(t) ==
    /\ pc[t] = "start_client"
    /\ IF client # NoClient
       THEN /\ pc' = [pc EXCEPT ![t] = "start_devices"]
            /\ UNCHANGED <<client, signals, prompts, ret>>
       ELSE \E probe_ok \in ProbeOutcomes(config["api_key"]) :
              LET c == init_openai_client(client, config["api_key"], probe_ok) IN
              /\ client' = c.client
              /\ IF c.ok
                 THEN /\ Emit(t, c.msgs)
                      /\ pc' = [pc EXCEPT ![t] = "start_devices"]
                      /\ UNCHANGED <<prompts, ret>>
                 ELSE /\ Emit(t, c.msgs \o <<Status(MsgInitFailed)>>)
                      /\ prompts' = prompts + 1
                      /\ Return(t, "start_return", RetBool(FALSE))
    /\ UNCHANGED <<is_recording, audio_data, recording_thread, app_vars,
                   worker_vars, op, joining, audio_np, tmp,
                   temp_files, written, printed, settings_vars, requests,
                   uploaded, error, ghost_vars>>

\* l.237-245: the except branch of start_recording.
StartExcept(t) ==
    /\ Emit(t, <<Status(MsgStartError), StateChanged(FALSE)>>)
    /\ is_recording' = FALSE
    /\ Return(t, "start_return", RetBool(FALSE))

\* l.216-222: sd.query_devices() and the default device, which may raise.
StartDevices(t) ==
    /\ pc[t] = "start_devices"
    /\ \E ok \in BOOLEAN :
         IF ok
         THEN /\ pc' = [pc EXCEPT ![t] = "start_begin"]
              /\ UNCHANGED <<is_recording, signals, ret>>
         ELSE StartExcept(t)
    /\ UNCHANGED <<audio_data, recording_thread, client, app_vars,
                   worker_vars, op, joining, audio_np, tmp,
                   temp_files, written, printed, settings_vars, prompts, requests,
                   uploaded, error, ghost_vars>>

\* Mutant of StartBegin: l.225 is missing, the old chunks stay in the buffer.
StartBegin_KeepsBuffer(t) ==
    /\ pc[t] = "start_begin"
    /\ is_recording' = TRUE
    /\ captured' = <<>>
    /\ requests' = 0
    /\ Emit(t, <<Status(MsgRecording), StateChanged(TRUE)>>)
    /\ pc' = [pc EXCEPT ![t] = "start_thread"]
    /\ UNCHANGED <<audio_data, recording_thread, client, app_vars,
                   worker_vars, op, ret, joining, audio_np, tmp,
                   temp_files, written, printed, settings_vars, prompts, uploaded,
                   error, pre, events, saves, quit>>

\* l.224-227: the session begins.
StartBegin(t) ==
    /\ pc[t] = "start_begin"
    /\ is_recording' = TRUE
    /\ audio_data' = <<>>
    /\ captured' = <<>>
    /\ requests' = 0
    /\ Emit(t, <<Status(MsgRecording), StateChanged(TRUE)>>)
    /\ pc' = [pc EXCEPT ![t] = "start_thread"]
    /\ UNCHANGED <<recording_thread, client, app_vars, worker_vars, op, ret, joining,
                   audio_np, tmp, temp_files, written, printed, settings_vars, prompts, uploaded, error,
                   pre, events, saves, quit>>

\* l.230-231: a new Thread object.
StartThread(t) ==
    /\ pc[t] = "start_thread"
    /\ \E w \in Workers :
         /\ wpc[w] = "none"
         /\ \A v \in Workers : v < w => wpc[v] # "none"
         /\ recording_thread' = w
         /\ wpc' = [wpc EXCEPT ![w] = "created"]
    /\ pc' = [pc EXCEPT ![t] = "start_run"]
    /\ UNCHANGED <<is_recording, audio_data, client, app_vars, next_frame, op, ret,
                   joining, audio_np, tmp, world_vars, ghost_vars>>

\* l.232-235: Thread.start(), which may raise (l.237-245).
StartRun(t) ==
    /\ pc[t] = "start_run"
    /\ \E ok \in BOOLEAN :
         IF ok
         THEN /\ wpc' = [wpc EXCEPT ![recording_thread] = "started"]
              /\ Return(t, "start_return", RetBool(TRUE))
              /\ signals' = [signals EXCEPT !["worker"] = <<>>]
              /\ UNCHANGED is_recording
         ELSE /\ StartExcept(t)
              /\ UNCHANGED wpc
    /\ UNCHANGED <<audio_data, recording_thread, client, app_vars,
                   next_frame, op, joining, audio_np, tmp,
                   temp_files, written, printed, settings_vars, prompts, requests,
                   uploaded, error, ghost_vars>>

\* -------------------------------------------------- AudioRecorder.stop_recording
\* Mutant of StopCheck: the guard of l.248 is missing, a stop on an idle
\* recorder goes on to transcribe what the buffer holds.
StopCheck_NoGuard(t) ==
    /\ pc[t] = "stop_check"
    /\ pre' = [pre EXCEPT ![t] = Snapshot(t)]
    /\ pc' = [pc EXCEPT ![t] = "stop_clear"]
    /\ UNCHANGED <<recorder_vars, app_vars, worker_vars, op, ret, joining, audio_np, tmp,
                   world_vars, captured, events, saves, quit>>

\* Mutant of StopCheck: an idle stop reports that nothing was recorded.
StopCheck_Reports(t) ==
    /\ pc[t] = "stop_check"
    /\ pre' = [pre EXCEPT ![t] = Snapshot(t)]
    /\ IF ~is_recording
       THEN /\ Emit(t, <<Status(MsgNoAudio)>>)
            /\ Return(t, "stop_return", RetText(<<>>))
       ELSE /\ pc' = [pc EXCEPT ![t] = "stop_clear"]
            /\ UNCHANGED <<ret, signals>>
    /\ UNCHANGED <<recorder_vars, app_vars, worker_vars, op, joining,
                   audio_np, tmp, temp_files, written, printed, settings_vars,
                   prompts, requests, uploaded, error, captured,
                   events, saves, quit>>

\* l.248-249: the guard.
StopCheck(t) ==
    /\ pc[t] = "stop_check"
    /\ pre' = [pre EXCEPT ![t] = Snapshot(t)]
    /\ IF ~is_recording
       THEN Return(t, "stop_return", RetText(<<>>))
       ELSE /\ pc' = [pc EXCEPT ![t] = "stop_clear"]
            /\ UNCHANGED ret
    /\ UNCHANGED <<recorder_vars, app_vars, worker_vars, op, joining, audio_np, tmp,
                   world_vars, captured, events, saves, quit>>

\* l.251-252: the flag is cleared and the indicator signalled.
StopClear(t) ==
    /\ pc[t] = "stop_clear"
    /\ is_recording' = FALSE
    /\ Emit(t, <<StateChanged(FALSE)>>)
    /\ pc' = [pc EXCEPT ![t] = "stop_join"]
    /\ UNCHANGED <<audio_data, recording_thread, client, app_vars, worker_vars,
                   op, ret, joining, audio_np, tmp, temp_files, written, printed, settings_vars, prompts,
                   requests, uploaded, error, ghost_vars>>

\* l.253-254: `if self.recording_thread: self.recording_thread.join()`;
\* joining a Thread that was never started raises RuntimeError.
StopJoin(t) ==
    /\ pc[t] = "stop_join"
    /\ IF recording_thread = None
       THEN /\ pc' = [pc EXCEPT ![t] = "stop_read"]
            /\ UNCHANGED <<ret, joining>>
       ELSE /\ joining' = [joining EXCEPT ![t] = recording_thread]
            /\ IF wpc[recording_thread] = "created"
               THEN Return(t, "stop_return", RetRaise)
               ELSE /\ pc' = [pc EXCEPT ![t] = "stop_wait"]
                    /\ UNCHANGED ret
    /\ UNCHANGED <<recorder_vars, app_vars, worker_vars, op, audio_np, tmp,
                   world_vars, ghost_vars>>

\* l.254: join() returns once the thread has ended.
StopWait(t) ==
    /\ pc[t] = "stop_wait"
    /\ wpc[joining[t]] = "dead"
    /\ pc' = [pc EXCEPT ![t] = "stop_read"]
    /\ UNCHANGED <<recorder_vars, app_vars, worker_vars, op, ret, joining, audio_np,
                   tmp, world_vars, ghost_vars>>

\* l.256-258: nothing captured.
StopRead(t) ==
    /\ pc[t] = "stop_read"
    /\ IF audio_data = <<>>
       THEN /\ Emit(t, <<Status(MsgNoAudio)>>)
            /\ Return(t, "stop_return", RetText(<<>>))
       ELSE /\ pc' = [pc EXCEPT ![t] = "stop_write"]
            /\ UNCHANGED <<signals, ret>>
    /\ UNCHANGED <<recorder_vars, app_vars, worker_vars, op, joining,
                   audio_np, tmp, temp_files, written, printed, settings_vars,
                   prompts, requests, uploaded, error, ghost_vars>>

\* A name no temporary file has.
FreshFile == IF temp_files = {} THEN 1
             ELSE 1 + CHOOSE f \in temp_files : \A g \in temp_files : g <= f

\* l.261-264: np.concatenate, NamedTemporaryFile(delete=False), sf.write.  These
\* lines are outside the try of l.266: an exception here leaves stop_recording.
StopWrite(t) ==
    /\ pc[t] = "stop_write"
    /\ \E outcome \in {"ok", "concatenate raises", "write raises"} :
         IF outcome = "concatenate raises"
         THEN /\ Return(t, "stop_return", RetRaise)
              /\ UNCHANGED <<audio_np, tmp, temp_files>>
         ELSE /\ audio_np' = [audio_np EXCEPT ![t] = Concatenate(audio_data)]
              /\ tmp' = [tmp EXCEPT ![t] = FreshFile]
              /\ temp_files' = temp_files \cup {FreshFile}
              /\ IF outcome = "write raises"
                 THEN Return(t, "stop_return", RetRaise)
                 ELSE /\ pc' = [pc EXCEPT ![t] = "stop_transcribe"]
                      /\ UNCHANGED ret
    /\ UNCHANGED <<recorder_vars, app_vars, worker_vars, op, joining, signals,
                   written, printed, settings_vars, prompts, requests, uploaded, error, ghost_vars>>

\* What client.audio.transcriptions.create may do: with no client the attribute
\* access raises before anything is sent; otherwise the request is sent and
\* either answered with a text or failed for one of the remote reasons.
Responses(c) ==
    IF c = NoClient
    THEN { [sent |-> FALSE, ok |-> FALSE, text |-> <<>>, error |-> AttributeError] }
    ELSE { [sent |-> TRUE, ok |-> TRUE, text |-> x, error |-> NoError] :
              x \in ResponseTexts }
         \cup { [sent |-> TRUE, ok |-> FALSE, text |-> <<>>, error |-> e] :
                   e \in RemoteErrors }

\* Mutant of StopTranscribe: the except branch returns "" without a status
\* message (l.280 is missing).
StopTranscribe_Silent(t) ==
    /\ pc[t] = "stop_transcribe"
    /\ \E resp \in Responses(client), unlink_ok \in BOOLEAN :
         LET text == Strip(resp.text) IN
         /\ requests' = IF resp.sent THEN requests + 1 ELSE requests
         /\ uploaded' = IF resp.sent THEN [uploaded EXCEPT ![t] = audio_np[t]]
                        ELSE uploaded
         /\ error' = [error EXCEPT ![t] = resp.error]
         /\ IF resp.ok
            THEN /\ Emit(t, <<Status(MsgTranscribing)>>
                            \o (IF text # <<>> THEN <<Status(MsgComplete)>> ELSE <<>>))
                 /\ Return(t, "stop_return", RetText(text))
            ELSE /\ Emit(t, <<Status(MsgTranscribing)>>)
                 /\ Return(t, "stop_return", RetText(<<>>))
         /\ temp_files' = IF unlink_ok THEN temp_files \ {tmp[t]} ELSE temp_files
    /\ UNCHANGED <<recorder_vars, app_vars, worker_vars, op, joining, audio_np, tmp,
                   written, printed, settings_vars, prompts, ghost_vars>>

\* l.266-288: the request, its except branch, and the unlink of the finally
\* branch, whose own failure is swallowed (l.287-288).
StopTranscribe(t) ==
    /\ pc[t] = "stop_transcribe"
    /\ \E resp \in Responses(client), unlink_ok \in BOOLEAN :
         LET text == Strip(resp.text) IN
         /\ requests' = IF resp.sent THEN requests + 1 ELSE requests
         /\ uploaded' = IF resp.sent THEN [uploaded EXCEPT ![t] = audio_np[t]]
                        ELSE uploaded
         /\ error' = [error EXCEPT ![t] = resp.error]
         /\ IF resp.ok
            THEN /\ Emit(t, <<Status(MsgTranscribing)>>
                            \o (IF text # <<>> THEN <<Status(MsgComplete)>> ELSE <<>>))
                 /\ Return(t, "stop_return", RetText(text))
            ELSE /\ Emit(t, <<Status(MsgTranscribing),
                              ErrorStatus(MsgTranscriptionError, resp.error)>>)
                 /\ Return(t, "stop_return", RetText(<<>>))
         /\ temp_files' = IF unlink_ok THEN temp_files \ {tmp[t]} ELSE temp_files
    /\ UNCHANGED <<recorder_vars, app_vars, worker_vars, op, joining, audio_np, tmp,
                   written, printed, settings_vars, prompts, ghost_vars>>

\* ---------------------------------------------------- AudioRecorder._record_audio
\* l.305-314 and l.321-328: the input stream opens, or the except branch runs.
WorkerOpen(w) ==
    /\ ~quit
    /\ wpc[w] = "started"
    /\ \E ok \in BOOLEAN :
         IF ok
         THEN /\ wpc' = [wpc EXCEPT ![w] = "streaming"]
              /\ UNCHANGED <<is_recording, signals>>
         ELSE /\ Emit("worker", <<Status(MsgStreamError), StateChanged(FALSE)>>)
              /\ is_recording' = FALSE
              /\ wpc' = [wpc EXCEPT ![w] = "dead"]
    /\ UNCHANGED <<audio_data, recording_thread, client, app_vars,
                   next_frame, local_vars, temp_files, written,
                   printed, settings_vars, prompts, requests, uploaded, error,
                   ghost_vars>>

\* Mutant of audio_callback: the new chunk is put in front of the buffer.
audio_callback_Prepends(w) ==
    /\ ~quit
    /\ wpc[w] = "streaming"
    /\ next_frame <= MaxFrames
    /\ next_frame' = next_frame + 1
    /\ IF is_recording
       THEN /\ audio_data' = <<Frame(next_frame)>> \o audio_data
            /\ captured' = Append(captured, next_frame)
       ELSE UNCHANGED <<audio_data, captured>>
    /\ UNCHANGED <<is_recording, recording_thread, client, app_vars, wpc, local_vars,
                   world_vars, pre, events, saves, quit>>

\* l.293-303: the device delivers a frame to the open stream's callback.
audio_callback(w) ==
    /\ ~quit
    /\ wpc[w] = "streaming"
    /\ next_frame <= MaxFrames
    /\ next_frame' = next_frame + 1
    /\ IF is_recording
       THEN /\ audio_data' = Append(audio_data, Frame(next_frame))
            /\ captured' = Append(captured, next_frame)
       ELSE UNCHANGED <<audio_data, captured>>
    /\ UNCHANGED <<is_recording, recording_thread, client, app_vars, wpc, local_vars,
                   world_vars, pre, events, saves, quit>>

\* l.318-319 and l.330: the loop sees the cleared flag, the stream closes and
\* the thread ends.
WorkerExit(w) ==
    /\ ~quit
    /\ wpc[w] = "streaming"
    /\ ~is_recording
    /\ wpc' = [wpc EXCEPT ![w] = "dead"]
    /\ UNCHANGED <<recorder_vars, app_vars, next_frame, local_vars, world_vars,
                   ghost_vars>>

\* ------------------------------------------------ TextCreatorApp.toggle_recording
\* Handlers run one at a time in this specification: an event is taken when
\* every controller thread is idle.
AllIdle == \A t \in Threads : pc[t] = "idle"

CanBegin == ~quit /\ AllIdle /\ events < MaxEvents

Begin(t, handler, where) ==
    /\ pc' = [pc EXCEPT ![t] = where]
    /\ op' = [op EXCEPT ![t] = handler]
    /\ events' = events + 1

\* The bound hotkey is pressed: the keyboard library calls toggle_recording.
Press ==
    /\ CanBegin
    /\ hooks # <<>>
    /\ Begin("hotkey", "toggle_recording", "toggle_check")
    /\ UNCHANGED <<recorder_vars, app_vars, worker_vars, ret, joining, audio_np, tmp,
                   world_vars, captured, pre, saves, quit>>

\* l.484-492 and l.504-507: the dispatch on the application's own flag.
ToggleCheck(t) ==
    /\ pc[t] = "toggle_check"
    /\ IF app_is_recording
       THEN /\ app_is_recording' = FALSE
            /\ pc' = [pc EXCEPT ![t] = "stop_check"]
       ELSE /\ pc' = [pc EXCEPT ![t] = "start_check"]
            /\ UNCHANGED app_is_recording
    /\ UNCHANGED <<recorder_vars, config, main_file, sensitive_file, hooks,
                   settings_open, worker_vars, op, ret, joining, audio_np, tmp,
                   world_vars, ghost_vars>>

\* l.507-515: start_recording has returned.
ToggleAfterStart(t) ==
    /\ pc[t] = "start_return"
    /\ op[t] = "toggle_recording"
    /\ app_is_recording' = IF ret[t].kind = "True" THEN TRUE ELSE app_is_recording
    /\ pc' = [pc EXCEPT ![t] = "done"]
    /\ UNCHANGED <<recorder_vars, config, main_file, sensitive_file, hooks,
                   settings_open, worker_vars, op, ret, joining, audio_np, tmp,
                   world_vars, ghost_vars>>

\* Mutant of ToggleAfterStop: the test of l.496 is missing, whatever
\* stop_recording returned is written.
ToggleAfterStop_NoCheck(t) ==
    /\ pc[t] = "stop_return"
    /\ op[t] = "toggle_recording"
    /\ written' = IF ret[t].kind = "text" THEN Append(written, ret[t].text) ELSE written
    /\ pc' = [pc EXCEPT ![t] = "done"]
    /\ UNCHANGED <<recorder_vars, app_vars, worker_vars, op, ret, joining, audio_np,
                   tmp, temp_files, signals, printed, settings_vars, prompts, requests, uploaded,
                   error, ghost_vars>>

\* l.494-503: stop_recording has returned (or raised, which l.500 catches).
ToggleAfterStop(t) ==
    /\ pc[t] = "stop_return"
    /\ op[t] = "toggle_recording"
    /\ written' = IF ret[t].kind = "text" /\ ret[t].text # <<>> /\ Strip(ret[t].text) # <<>>
                  THEN Append(written, ret[t].text)
                  ELSE written
    /\ pc' = [pc EXCEPT ![t] = "done"]
    /\ UNCHANGED <<recorder_vars, app_vars, worker_vars, op, ret, joining, audio_np,
                   tmp, temp_files, signals, printed, settings_vars, prompts, requests, uploaded,
                   error, ghost_vars>>

\* The handler is over; its locals and the record of what it emitted go.
Finish(t) ==
    /\ pc[t] = "done"
    /\ pc' = [pc EXCEPT ![t] = "idle"]
    /\ op' = [op EXCEPT ![t] = "idle"]
    /\ ret' = [ret EXCEPT ![t] = NoRet]
    /\ joining' = [joining EXCEPT ![t] = None]
    /\ audio_np' = [audio_np EXCEPT ![t] = <<>>]
    /\ tmp' = [tmp EXCEPT ![t] = 0]
    /\ signals' = [signals EXCEPT ![t] = <<>>]
    /\ uploaded' = [uploaded EXCEPT ![t] = <<>>]
    /\ error' = [error EXCEPT ![t] = NoError]
    /\ pre' = [pre EXCEPT ![t] = NoPre]
    /\ written' = <<>>
    /\ printed' = <<>>
    /\ new_config' = NoNewConfig
    /\ probe' = "none"
    /\ response' = ""
    /\ UNCHANGED <<recorder_vars, app_vars, worker_vars, temp_files, prompts,
                   requests, captured, events, saves, quit>>

\* ------------------------------------------------------- settings and quit
\* The tray's Settings action: show_settings.
TraySettings ==
    /\ ~quit /\ AllIdle
    /\ ~settings_open
    /\ settings_open' = TRUE
    /\ UNCHANGED <<recorder_vars, config, main_file, sensitive_file, hooks,
                   app_is_recording, worker_vars, local_vars, world_vars, ghost_vars>>

\* The timer of l.211 fires: _show_api_key_settings.
PromptFires ==
    /\ ~quit /\ AllIdle
    /\ prompts > 0
    /\ prompts' = prompts - 1
    /\ settings_open' = TRUE
    /\ UNCHANGED <<recorder_vars, config, main_file, sensitive_file, hooks,
                   app_is_recording, worker_vars, local_vars, temp_files, signals,
                   written, printed, settings_vars, requests, uploaded, error, ghost_vars>>

\* What the user may type in the two fields.
KeyTexts == {"", " sk-good ", "sk-bad"}
HotkeyTexts == {"", "f9", "not a key"}
\* toPlainText().strip()
StripText(s) == IF s = " sk-good " THEN "sk-good" ELSE IF s = " " THEN "" ELSE s
\* l.615: no key, or the placeholder.
NoKeyProvided(key) == key = "" \/ key = "your-api-key-here"

\* l.615 and l.625-636: the branch save_settings takes on the key.
Branch(key, probe_ok) ==
    IF NoKeyProvided(key) THEN "no_key" ELSE IF probe_ok THEN "valid" ELSE "failed"

\* Mutant of SaveSettings: the answer to 'Save Anyway?' is not looked at, the
\* settings are saved whatever the user said.
SaveSettings_IgnoresAnswer ==
    /\ CanBegin
    /\ settings_open
    /\ saves < MaxSaves
    /\ saves' = saves + 1
    /\ \E hk \in HotkeyTexts, keytext \in KeyTexts, answer \in {"Yes", "No"},
          main_ok \in BOOLEAN, sens_ok \in BOOLEAN :
         LET key == StripText(keytext) IN
         \E probe_ok \in ProbeOutcomes(key) :
           LET typed == [hotkey |-> hk, language |-> "en", api_key |-> key]
               new == DictUpdate(config, typed)
               files == SaveConfig(new, main_file, sensitive_file, main_ok, sens_ok)
           IN  /\ new_config' = typed
               /\ probe' = Branch(key, probe_ok)
               /\ response' = IF Branch(key, probe_ok) = "failed" THEN answer ELSE ""
               /\ config' = new
               /\ main_file' = files.main_file
               /\ sensitive_file' = files.sensitive_file
               /\ printed' = printed \o files.printed
               /\ Begin("gui", "save_settings", "register_hotkey")
    /\ UNCHANGED <<recorder_vars, hooks, settings_open, app_is_recording, worker_vars,
                   ret, joining, audio_np, tmp, temp_files, signals, written, prompts,
                   requests, uploaded, error, captured, pre, quit>>

\* l.606-657 and l.541-543: save_settings up to update_config's _save_config.
\* After a failed probe the user is asked 'Save Anyway?' (l.649); only Yes
\* goes on to update_config (l.653-657).
SaveSettings ==
    /\ CanBegin
    /\ settings_open
    /\ saves < MaxSaves
    /\ saves' = saves + 1
    /\ \E hk \in HotkeyTexts, keytext \in KeyTexts, answer \in {"Yes", "No"},
          main_ok \in BOOLEAN, sens_ok \in BOOLEAN :
         LET key == StripText(keytext) IN
         \E probe_ok \in ProbeOutcomes(key) :
           LET typed == [hotkey |-> hk, language |-> "en", api_key |-> key]
               asked == Branch(key, probe_ok) = "failed"
               new == DictUpdate(config, typed)
               files == SaveConfig(new, main_file, sensitive_file, main_ok, sens_ok)
           IN  /\ new_config' = typed
               /\ probe' = Branch(key, probe_ok)
               /\ response' = IF asked THEN answer ELSE ""
               /\ IF ~asked \/ answer = "Yes"
                  THEN /\ config' = new
                       /\ main_file' = files.main_file
                       /\ sensitive_file' = files.sensitive_file
                       /\ printed' = printed \o files.printed
                       /\ Begin("gui", "save_settings", "register_hotkey")
                  ELSE /\ Begin("gui", "save_settings", "done")
                       /\ UNCHANGED <<config, main_file, sensitive_file, printed>>
    /\ UNCHANGED <<recorder_vars, hooks, settings_open, app_is_recording, worker_vars,
                   ret, joining, audio_np, tmp, temp_files, signals, written, prompts,
                   requests, uploaded, error, captured, pre, quit>>

\* l.544: update_config's register_hotkey().
RegisterHotkeyStep(t) ==
    /\ pc[t] = "register_hotkey"
    /\ \E main_ok \in BOOLEAN, sens_ok \in BOOLEAN :
         LET reg == RegisterHotkey(config, main_file, sensitive_file, main_ok, sens_ok) IN
         /\ (config["hotkey"] # "" => main_ok /\ sens_ok)
         /\ config' = reg.config
         /\ main_file' = reg.main_file
         /\ sensitive_file' = reg.sensitive_file
         /\ hooks' = reg.hooks
         /\ printed' = printed \o reg.printed
    /\ pc' = [pc EXCEPT ![t] = "rec_update"]
    /\ UNCHANGED <<recorder_vars, settings_open, app_is_recording, worker_vars, op,
                   ret, joining, audio_np, tmp, temp_files, signals, written,
                   settings_vars, prompts, requests, uploaded, error, ghost_vars>>

\* Mutant of RecUpdate: the flag is cleared in place, without stop_recording.
RecUpdate_ClearsFlag(t) ==
    /\ pc[t] = "rec_update"
    /\ is_recording' = FALSE
    /\ pc' = [pc EXCEPT ![t] = "rec_init"]
    /\ UNCHANGED <<audio_data, recording_thread, client, app_vars, worker_vars, op,
                   ret, joining, audio_np, tmp, world_vars, ghost_vars>>

\* l.166-172: AudioRecorder.update_config stops an active recording first.
RecUpdate(t) ==
    /\ pc[t] = "rec_update"
    /\ pc' = [pc EXCEPT ![t] = IF is_recording THEN "stop_check" ELSE "rec_init"]
    /\ UNCHANGED <<recorder_vars, app_vars, worker_vars, op, ret, joining, audio_np,
                   tmp, world_vars, ghost_vars>>

\* l.172: stop_recording has returned.  An exception it raised leaves
\* update_config; the call of l.633 is inside the try of l.625, so there the
\* except branch of l.636 takes it for a failed probe and asks 'Save Anyway?',
\* and Yes runs l.655-656 once more; from l.620 and l.656 it leaves
\* save_settings.
UpdateAfterStop(t) ==
    /\ pc[t] = "stop_return"
    /\ op[t] = "save_settings"
    /\ IF ret[t].kind = "raise" /\ probe = "valid" /\ response = ""
       THEN \E answer \in {"Yes", "No"}, main_ok \in BOOLEAN, sens_ok \in BOOLEAN :
              LET new == DictUpdate(config, new_config)
                  files == SaveConfig(new, main_file, sensitive_file, main_ok, sens_ok)
              IN  /\ response' = answer
                  /\ IF answer = "Yes"
                     THEN /\ config' = new
                          /\ main_file' = files.main_file
                          /\ sensitive_file' = files.sensitive_file
                          /\ printed' = printed \o files.printed
                          /\ pc' = [pc EXCEPT ![t] = "register_hotkey"]
                     ELSE /\ pc' = [pc EXCEPT ![t] = "done"]
                          /\ UNCHANGED <<config, main_file, sensitive_file, printed>>
       ELSE /\ pc' = [pc EXCEPT ![t] = IF ret[t].kind = "raise" THEN "done" ELSE "rec_init"]
            /\ UNCHANGED <<config, main_file, sensitive_file, printed, response>>
    /\ UNCHANGED <<recorder_vars, hooks, settings_open, app_is_recording, worker_vars,
                   op, ret, joining, audio_np, tmp, temp_files, signals, written,
                   new_config, probe, prompts, requests, uploaded, error, ghost_vars>>

\* l.175-183: the client is rebuilt from the new key; update_config returns
\* and save_settings closes the window (l.621, l.634, l.657).
RecInit(t) ==
    /\ pc[t] = "rec_init"
    /\ \E probe_ok \in ProbeOutcomes(config["api_key"]) :
         LET c == init_openai_client(client, config["api_key"], probe_ok) IN
         /\ client' = c.client
         /\ Emit(t, c.msgs \o <<Status(IF c.ok THEN MsgKeyUpdated ELSE MsgKeyFailed)>>)
    /\ settings_open' = FALSE
    /\ pc' = [pc EXCEPT ![t] = "done"]
    /\ UNCHANGED <<is_recording, audio_data, recording_thread, config, main_file,
                   sensitive_file, hooks, app_is_recording, worker_vars,
                   op, ret, joining, audio_np, tmp, temp_files, written, printed, settings_vars, prompts,
                   requests, uploaded, error, ghost_vars>>

\* l.553-554: the tray's Exit action.
QuitApplication ==
    /\ CanBegin
    /\ Begin("gui", "quit_application", "stop_check")
    /\ UNCHANGED <<recorder_vars, app_vars, worker_vars, ret, joining, audio_np, tmp,
                   world_vars, captured, pre, saves, quit>>

\* l.555: self.quit(), unless stop_recording raised.
QuitAfterStop(t) ==
    /\ pc[t] = "stop_return"
    /\ op[t] = "quit_application"
    /\ quit' = (ret[t].kind # "raise")
    /\ pc' = [pc EXCEPT ![t] = "done"]
    /\ UNCHANGED <<recorder_vars, app_vars, worker_vars, op, ret, joining, audio_np,
                   tmp, world_vars, captured, pre, events, saves>>

\* ------------------------------------------------------ the recorder on its own
\* A caller of the AudioRecorder's public methods, in any order.
CallStart ==
    /\ CanBegin
    /\ Begin("caller", "start_recording", "start_check")
    /\ UNCHANGED <<recorder_vars, app_vars, worker_vars, ret, joining, audio_np, tmp,
                   world_vars, captured, pre, saves, quit>>

CallStop ==
    /\ CanBegin
    /\ Begin("caller", "stop_recording", "stop_check")
    /\ UNCHANGED <<recorder_vars, app_vars, worker_vars, ret, joining, audio_np, tmp,
                   world_vars, captured, pre, saves, quit>>

CallReturns(t) ==
    /\ pc[t] \in {"start_return", "stop_return"}
    /\ op[t] \in {"start_recording", "stop_recording"}
    /\ pc' = [pc EXCEPT ![t] = "done"]
    /\ UNCHANGED <<recorder_vars, app_vars, worker_vars, op, ret, joining, audio_np,
                   tmp, world_vars, ghost_vars>>

\* --------------------------------------------------- the config store on its own
\* The documents the two files may hold at startup: any mapping of a few keys
\* (two secret ones, a general one, one the program does not know) to a few
\* values, in either file.
ConfigKeys == {"hotkey", "api_key", "model", "theme"}
MainValues == {"", "a"}
SensitiveValues == {"", "b"}
Documents(values) == UNION { [keys -> values] : keys \in SUBSET ConfigKeys }
MainFiles == {NoFile} \cup { FileOf(doc) : doc \in Documents(MainValues) }
SensitiveFiles == {NoFile} \cup { FileOf(doc) : doc \in Documents(SensitiveValues) }

\* The process before TextCreatorApp.__init__ has loaded anything.
ConfigInit ==
    /\ main_file \in MainFiles
    /\ sensitive_file \in SensitiveFiles
    /\ config = <<>>
    /\ hooks = <<>>
    /\ settings_open = FALSE
    /\ app_is_recording = FALSE
    /\ is_recording = FALSE
    /\ audio_data = <<>>
    /\ recording_thread = None
    /\ client = NoClient
    /\ wpc = [w \in Workers |-> "none"]
    /\ next_frame = 1
    /\ pc = [t \in Threads |-> IF t = "caller" THEN "load_config" ELSE "idle"]
    /\ op = [t \in Threads |-> IF t = "caller" THEN "__init__" ELSE "idle"]
    /\ ret = [t \in Threads |-> NoRet]
    /\ joining = [t \in Threads |-> None]
    /\ audio_np = [t \in Threads |-> <<>>]
    /\ tmp = [t \in Threads |-> 0]
    /\ temp_files = {}
    /\ signals = [t \in Threads \cup {"worker"} |-> <<>>]
    /\ written = <<>>
    /\ printed = <<>>
    /\ new_config = NoNewConfig
    /\ probe = "none"
    /\ response = ""
    /\ prompts = 0
    /\ requests = 0
    /\ uploaded = [t \in Threads |-> <<>>]
    /\ error = [t \in Threads |-> NoError]
    /\ captured = <<>>
    /\ pre = [t \in Threads |-> NoPre]
    /\ events = 0
    /\ saves = 0
    /\ quit = FALSE

\* Mutant of LoadConfigStep: the general document's entries are laid over the
\* secret document's.
LoadConfigStep_MainWins(t) ==
    /\ pc[t] \in {"load_config", "reload_config"}
    /\ config' = DictUpdate(LoadConfig(NoFile, sensitive_file),
                            IF main_file = NoFile THEN DEFAULT_MAIN_CONFIG
                            ELSE DictUpdate(DEFAULT_MAIN_CONFIG, main_file[1]))
    /\ pc' = [pc EXCEPT ![t] = IF pc[t] = "load_config" THEN "check_required_config"
                               ELSE "done"]
    /\ UNCHANGED <<recorder_vars, main_file, sensitive_file, hooks, settings_open,
                   app_is_recording, worker_vars, op, ret, joining, audio_np, tmp,
                   world_vars, ghost_vars>>

\* l.371-392: self.config = self._load_config(), at startup and again after a
\* save.
LoadConfigStep(t) ==
    /\ pc[t] \in {"load_config", "reload_config"}
    /\ config' = LoadConfig(main_file, sensitive_file)
    /\ pc' = [pc EXCEPT ![t] = IF pc[t] = "load_config" THEN "check_required_config"
                               ELSE "done"]
    /\ UNCHANGED <<recorder_vars, main_file, sensitive_file, hooks, settings_open,
                   app_is_recording, worker_vars, op, ret, joining, audio_np, tmp,
                   world_vars, ghost_vars>>

\* Mutant of CheckRequiredConfig: only the API key is looked at.
CheckRequiredConfig_KeyOnly(t) ==
    /\ pc[t] = "check_required_config"
    /\ settings_open' = (config["api_key"] = "")
    /\ pc' = [pc EXCEPT ![t] = "save_main"]
    /\ UNCHANGED <<recorder_vars, config, main_file, sensitive_file, hooks,
                   app_is_recording, worker_vars, op, ret, joining, audio_np, tmp,
                   world_vars, ghost_vars>>

\* l.353-369: _check_required_config opens the settings dialog when the API
\* key or the hotkey is missing.
CheckRequiredConfig(t) ==
    /\ pc[t] = "check_required_config"
    /\ settings_open' = (config["api_key"] = "" \/ config["hotkey"] = "")
    /\ pc' = [pc EXCEPT ![t] = "save_main"]
    /\ UNCHANGED <<recorder_vars, config, main_file, sensitive_file, hooks,
                   app_is_recording, worker_vars, op, ret, joining, audio_np, tmp,
                   world_vars, ghost_vars>>

\* Mutant of SaveMainConfig: the try of l.407 is missing, a failed write
\* leaves _save_config with the exception.
SaveMainConfig_Raises(t) ==
    /\ pc[t] = "save_main"
    /\ \E main_ok \in BOOLEAN :
         LET save == SaveConfig(config, main_file, sensitive_file, main_ok, TRUE) IN
         /\ main_file' = save.main_file
         /\ printed' = printed
         /\ pc' = [pc EXCEPT ![t] = IF main_ok THEN "save_sensitive" ELSE "done"]
         /\ ret' = [ret EXCEPT ![t] = IF main_ok THEN @ ELSE RetRaise]
    /\ UNCHANGED <<recorder_vars, config, sensitive_file, hooks, settings_open,
                   app_is_recording, worker_vars, op, joining, audio_np, tmp,
                   temp_files, signals, written, settings_vars, prompts,
                   requests, uploaded, error, ghost_vars>>

\* l.395-411: _save_config splits the mapping and writes the general document;
\* a failure is printed.
SaveMainConfig(t) ==
    /\ pc[t] = "save_main"
    /\ \E main_ok \in BOOLEAN :
         LET save == SaveConfig(config, main_file, sensitive_file, main_ok, TRUE) IN
         /\ main_file' = save.main_file
         /\ printed' = printed \o save.printed
    /\ pc' = [pc EXCEPT ![t] = "save_sensitive"]
    /\ UNCHANGED <<recorder_vars, config, sensitive_file, hooks, settings_open,
                   app_is_recording, worker_vars, op, ret, joining, audio_np, tmp,
                   temp_files, signals, written, settings_vars, prompts,
                   requests, uploaded, error, ghost_vars>>

\* l.413-418: _save_config writes the secret document; a failure is printed.
SaveSensitiveConfig(t) ==
    /\ pc[t] = "save_sensitive"
    /\ \E sens_ok \in BOOLEAN :
         LET save == SaveConfig(config, main_file, sensitive_file, TRUE, sens_ok) IN
         /\ sensitive_file' = save.sensitive_file
         /\ printed' = printed \o save.printed
    /\ pc' = [pc EXCEPT ![t] = "reload_config"]
    /\ UNCHANGED <<recorder_vars, config, main_file, hooks, settings_open,
                   app_is_recording, worker_vars, op, ret, joining, audio_np, tmp,
                   temp_files, signals, written, settings_vars, prompts,
                   requests, uploaded, error, ghost_vars>>

\* ------------------------------------------------- handlers on their own threads
\* The keyboard library calls toggle_recording on its own thread whenever the
\* hotkey is pressed, whatever the GUI thread is doing; the tray and the
\* settings window run on the GUI thread, whatever the hotkey thread is doing.
PressAnytime ==
    /\ ~quit
    /\ pc["hotkey"] = "idle"
    /\ hooks # <<>>
    /\ events < MaxEvents
    /\ Begin("hotkey", "toggle_recording", "toggle_check")
    /\ UNCHANGED <<recorder_vars, app_vars, worker_vars, ret, joining, audio_np, tmp,
                   world_vars, captured, pre, saves, quit>>

\* The tray's Settings action.
TraySettingsAnytime ==
    /\ ~quit
    /\ pc["gui"] = "idle"
    /\ ~settings_open
    /\ saves < MaxSaves
    /\ settings_open' = TRUE
    /\ UNCHANGED <<recorder_vars, config, main_file, sensitive_file, hooks,
                   app_is_recording, worker_vars, local_vars, world_vars, ghost_vars>>

\* l.606-657 and l.541-543: the settings are saved as they stand (the window
\* shows the current hotkey and key), both documents being written.
SaveSettingsAnytime ==
    /\ ~quit
    /\ pc["gui"] = "idle"
    /\ settings_open
    /\ saves < MaxSaves
    /\ saves' = saves + 1
    /\ \E probe_ok \in ProbeOutcomes(config["api_key"]), answer \in {"Yes", "No"} :
         LET key == config["api_key"]
             typed == [hotkey |-> config["hotkey"], language |-> "en", api_key |-> key]
             asked == Branch(key, probe_ok) = "failed"
             new == DictUpdate(config, typed)
             files == SaveConfig(new, main_file, sensitive_file, TRUE, TRUE)
         IN  /\ op' = [op EXCEPT !["gui"] = "save_settings"]
             /\ new_config' = typed
             /\ probe' = Branch(key, probe_ok)
             /\ response' = IF asked THEN answer ELSE ""
             /\ IF ~asked \/ answer = "Yes"
                THEN /\ config' = new
                     /\ main_file' = files.main_file
                     /\ sensitive_file' = files.sensitive_file
                     /\ pc' = [pc EXCEPT !["gui"] = "register_hotkey"]
                ELSE /\ pc' = [pc EXCEPT !["gui"] = "done"]
                     /\ UNCHANGED <<config, main_file, sensitive_file>>
    /\ UNCHANGED <<recorder_vars, hooks, settings_open, app_is_recording, worker_vars,
                   ret, joining, audio_np, tmp, temp_files, signals, written, printed,
                   prompts, requests, uploaded, error, captured, pre, events, quit>>

\* l.553-554: the tray's Exit action.
QuitAnytime ==
    /\ ~quit
    /\ pc["gui"] = "idle"
    /\ pc' = [pc EXCEPT !["gui"] = "stop_check"]
    /\ op' = [op EXCEPT !["gui"] = "quit_application"]
    /\ UNCHANGED <<recorder_vars, app_vars, worker_vars, ret, joining, audio_np, tmp,
                   world_vars, ghost_vars>>

\* ------------------------------------------------------------ specifications
RecorderStep(t) ==
    \/ StartCheck(t) \/ StartClient(t) \/ StartDevices(t) \/ StartBegin(t)
    \/ StartThread(t) \/ StartRun(t)
    \/ StopCheck(t) \/ StopClear(t) \/ StopJoin(t) \/ StopWait(t) \/ StopRead(t)
    \/ StopWrite(t) \/ StopTranscribe(t)

WorkerStep(w) == WorkerOpen(w) \/ audio_callback(w) \/ WorkerExit(w)

\* The application: hotkey presses, settings saves and quit, one handler at a
\* time, with the capture thread running beside them.
Next ==
    \/ Press
    \/ ToggleCheck("hotkey") \/ ToggleAfterStart("hotkey") \/ ToggleAfterStop("hotkey")
    \/ TraySettings \/ PromptFires \/ SaveSettings
    \/ RegisterHotkeyStep("gui") \/ RecUpdate("gui") \/ UpdateAfterStop("gui")
    \/ RecInit("gui")
    \/ QuitApplication \/ QuitAfterStop("gui")
    \/ \E t \in {"hotkey", "gui"} : RecorderStep(t)
    \/ \E w \in Workers : WorkerStep(w)
    \/ \E t \in {"hotkey", "gui"} : Finish(t)

Spec == Init /\ [][Next]_vars

\* The AudioRecorder driven directly through its public methods.
NextRecorder ==
    \/ CallStart \/ CallStop \/ CallReturns("caller")
    \/ RecorderStep("caller")
    \/ \E w \in Workers : WorkerStep(w)
    \/ Finish("caller")

RecorderSpec == Init /\ [][NextRecorder]_vars

\* The config store driven directly: load, the startup check, save, load.
NextConfig ==
    \/ LoadConfigStep("caller")
    \/ CheckRequiredConfig("caller")
    \/ SaveMainConfig("caller")
    \/ SaveSensitiveConfig("caller")
    \/ Finish("caller")

ConfigSpec == ConfigInit /\ [][NextConfig]_vars

\* The application started with a working configuration (a key the probe
\* accepted, a hotkey bound).
ConcurrentInit == Init /\ client # NoClient /\ hooks # <<>>

\* The application with its threads running side by side: the steps of a
\* hotkey toggle, of a settings save or quit, and of the capture threads
\* interleave freely.  A step of this specification is a block of source lines,
\* so its interleavings are among those of the program.
\* In this specification the scratch file behaves: numpy and soundfile do not
\* raise (l.261-264) and os.unlink succeeds (l.285).
ScratchFileBehaves(t) ==
    /\ pc[t] = "stop_write" => pc'[t] = "stop_transcribe"
    /\ pc[t] = "stop_transcribe" => tmp[t] \notin temp_files'

ConcurrentRecorderStep(t) == RecorderStep(t) /\ ScratchFileBehaves(t)

NextConcurrent ==
    \/ PressAnytime
    \/ ToggleCheck("hotkey") \/ ToggleAfterStart("hotkey") \/ ToggleAfterStop("hotkey")
    \/ TraySettingsAnytime \/ SaveSettingsAnytime
    \/ RegisterHotkeyStep("gui") \/ RecUpdate("gui") \/ UpdateAfterStop("gui")
    \/ RecInit("gui")
    \/ QuitAnytime \/ QuitAfterStop("gui")
    \/ \E t \in {"hotkey", "gui"} : ConcurrentRecorderStep(t)
    \/ \E w \in Workers : WorkerStep(w)
    \/ \E t \in {"hotkey", "gui"} : Finish(t)

ConcurrentSpec == ConcurrentInit /\ [][NextConcurrent]_vars

\* The threads under a fair scheduler.  A capture thread that can run does run
\* (l.230-232: it is a started threading.Thread; sd.InputStream opens or raises,
\* sd.sleep(100) returns, the with block of l.308-319 closes the stream), and a
\* controller thread inside start_recording or stop_recording goes on to its
\* next line (soundfile, the remote call of l.270 and os.unlink return).  No
\* fairness is put on the user: nobody has to press the hotkey or use the tray.
Scheduling ==
    /\ \A w \in Workers : WF_vars(WorkerOpen(w)) /\ WF_vars(WorkerExit(w))
    /\ \A t \in {"hotkey", "gui"} : WF_vars(ConcurrentRecorderStep(t))

FairSpec == Init /\ [][Next]_vars /\ Scheduling

FairConcurrentSpec == ConcurrentInit /\ [][NextConcurrent]_vars /\ Scheduling

\* ------------------------------------------------------------------- claims
StartPcs == {"start_check", "start_client", "start_devices", "start_begin",
             "start_thread", "start_run"}
StopPcs == {"stop_check", "stop_clear", "stop_join", "stop_wait", "stop_read",
            "stop_write", "stop_transcribe"}

\* Thread t takes a step of start_recording / stop_recording.
StepsInStart(t) == pc[t] \in StartPcs /\ pc'[t] # pc[t]
StepsInStop(t) == pc[t] \in StopPcs /\ pc'[t] # pc[t]

Emitted(t, sig) == \E i \in DOMAIN signals[t] : signals[t][i] = sig

\* C1 as stated: the active flag is false initially, becomes true only inside
\* start_recording and becomes false only inside stop_recording.
C1_OnlyStartAndStop ==
    /\ ~is_recording
    /\ [][ /\ (~is_recording /\ is_recording') => \E t \in Threads : StepsInStart(t)
           /\ (is_recording /\ ~is_recording') => \E t \in Threads : StepsInStop(t)
         ]_vars

\* C1 as amended: the flag is false initially and becomes true only inside
\* start_recording; it becomes false inside stop_recording, in
\* start_recording's own except branch after Thread.start() raised, or in the
\* capture thread's except branch after the input stream failed, and nowhere
\* else (a settings update clears it only by calling stop_recording).
C1_FlagTransitions ==
    /\ ~is_recording
    /\ [][ /\ (~is_recording /\ is_recording') => \E t \in Threads : StepsInStart(t)
           /\ (is_recording /\ ~is_recording') =>
                \/ \E t \in Threads : StepsInStop(t)
                \/ \E t \in Threads : pc[t] = "start_run" /\ pc'[t] = "start_return"
                \/ \E w \in Workers : wpc[w] = "started" /\ wpc'[w] = "dead"
         ]_vars

\* C1's case: the capture thread has ended in its except branch, which left
\* the recorder idle without any stop_recording.
C1_Witness ==
    /\ ~is_recording
    /\ \E w \in Workers : wpc[w] = "dead"
    /\ Emitted("worker", Status(MsgStreamError))
    /\ \A t \in Threads : pc[t] \notin StopPcs

\* C2: start_recording called while Recording returns False and changes
\* nothing: flag, buffer, thread handle, client, threads and signals stay.
C2_StartWhileRecording ==
    [][ \A t \in Threads :
          (pc[t] = "start_check" /\ is_recording /\ pc'[t] # pc[t]) =>
             /\ pc'[t] = "start_return"
             /\ ret'[t] = RetBool(FALSE)
             /\ UNCHANGED <<is_recording, audio_data, recording_thread, client,
                            wpc, signals, prompts, temp_files, requests>>
      ]_vars

\* C2's case: a start_recording call made while Recording has returned False.
C2_Witness ==
    \E t \in Threads :
       /\ pc[t] = "start_return"
       /\ pre[t].is_recording
       /\ is_recording
       /\ ret[t] = RetBool(FALSE)

\* C3: stop_recording called while Idle returns "" and changes nothing: flag,
\* buffer, thread handle, signals, temporary files and requests stay.
C3_StopWhileIdle ==
    [][ \A t \in Threads :
          (pc[t] = "stop_check" /\ ~is_recording /\ pc'[t] # pc[t]) =>
             /\ pc'[t] = "stop_return"
             /\ ret'[t] = RetText(<<>>)
             /\ UNCHANGED <<is_recording, audio_data, recording_thread, client,
                            wpc, signals, temp_files, requests, uploaded>>
      ]_vars

\* C3's case: quit_application has called stop_recording on an idle recorder,
\* which returned "".
C3_Witness ==
    \E t \in Threads :
       /\ pc[t] = "stop_return"
       /\ op[t] = "quit_application"
       /\ ~pre[t].is_recording
       /\ ret[t] = RetText(<<>>)

\* C4 as stated: every toggle_recording dispatches on the recorder's actual
\* state, to start_recording when it is Idle and to stop_recording when it is
\* Recording.
C4_ToggleFollowsRecorder ==
    [][ \A t \in Threads :
          (pc[t] = "toggle_check" /\ pc'[t] # pc[t]) =>
             pc'[t] = IF is_recording THEN "stop_check" ELSE "start_check"
      ]_vars

\* C5: start_recording called while Idle with no client and a failing
\* credential probe returns False, stays Idle, spawns no thread, emits a status
\* message and schedules the settings prompt.
C5_NoCredential ==
    [][ \A t \in Threads :
          (pc[t] = "start_client" /\ pc'[t] # pc[t]
             /\ client = NoClient /\ client' = NoClient) =>
             /\ pc'[t] = "start_return"
             /\ ret'[t] = RetBool(FALSE)
             /\ ~is_recording /\ ~is_recording'
             /\ UNCHANGED <<wpc, recording_thread, audio_data>>
             /\ \E i \in DOMAIN signals'[t] :
                  i > Len(signals[t]) /\ signals'[t][i] = Status(MsgInitFailed)
             /\ prompts' = prompts + 1
      ]_vars

\* C5's case: a start_recording call has failed for want of a credential.
C5_Witness ==
    \E t \in Threads :
       /\ pc[t] = "start_return"
       /\ ret[t] = RetBool(FALSE)
       /\ client = NoClient
       /\ Emitted(t, Status(MsgInitFailed))
       /\ prompts > 0
       /\ \A w \in Workers : wpc[w] = "none"

\* C6 as stated: a start_recording call that returns False leaves the flag,
\* the buffer and the thread handle as they were when it was called, and has
\* emitted a status message.
C6_FailedStartLeavesState ==
    \A t \in Threads :
       (pc[t] = "start_return" /\ ret[t] = RetBool(FALSE)) =>
          /\ is_recording = pre[t].is_recording
          /\ audio_data = pre[t].audio_data
          /\ recording_thread = pre[t].recording_thread
          /\ \E i \in DOMAIN signals[t] :
               i > Len(pre[t].signals) /\ signals[t][i][1] = "status_update"

\* C7 as stated: stop_recording called while Recording never raises; it
\* returns a stripped text, and the empty string only after reporting a
\* failure on the status channel or after an empty transcript.
C7_StopNeverRaises ==
    \A t \in Threads :
       (pc[t] = "stop_return" /\ pre[t].is_recording) =>
          /\ ret[t].kind = "text"
          /\ ret[t].text = Strip(ret[t].text)

\* C8 as stated: the temporary file a stop_recording call created no longer
\* exists once the call has returned.
C8_TempFileGone ==
    \A t \in Threads :
       (pc[t] = "stop_return" /\ ret[t].kind = "text" /\ tmp[t] # 0) =>
          tmp[t] \notin temp_files

\* C9 as stated: once the stop_recording call of a toggle-off has returned,
\* the chunk buffer is empty.
C9_BufferEmptyAfterStop ==
    \A t \in Threads :
       (pc[t] = "stop_return" /\ op[t] = "toggle_recording" /\ ret[t].kind = "text"
          /\ pre[t].is_recording) =>
          audio_data = <<>>

\* C9 as amended: stop_recording never changes the chunk buffer, so a
\* session's chunks are still there when it returns; they are discarded when
\* the next session begins: every step that makes the recorder Recording
\* leaves the buffer empty.
C9_BufferClearedAtStart ==
    [][ /\ (\E t \in Threads : StepsInStop(t)) => audio_data' = audio_data
        /\ (~is_recording /\ is_recording') => audio_data' = <<>>
      ]_vars

\* C9's case: a new session has begun on a buffer that still held the chunks
\* of the session before it.
C9_Witness ==
    \E t \in Threads :
       /\ pc[t] = "start_thread"
       /\ pre[t].audio_data # <<>>
       /\ is_recording
       /\ audio_data = <<>>

\* The sample at position p of the waveform made of the frames numbered ks.
SampleAt(ks, p) == Frame(ks[((p - 1) \div FrameLen) + 1])[((p - 1) % FrameLen) + 1]

C11_RemoteFailure ==
    \A t \in Threads :
       (pc[t] = "stop_return" /\ error[t] \in RemoteErrors) =>
          /\ ret[t] = RetText(<<>>)
          /\ Cardinality({ i \in DOMAIN signals[t] :
                             /\ i > Len(pre[t].signals)
                             /\ signals[t][i][1] = "status_update"
                             /\ Reason(signals[t][i]) = error[t] }) = 1

\* C11's case: a stop_recording call whose request was sent and refused has
\* returned.
C11_Witness ==
    \E t \in Threads :
       /\ pc[t] = "stop_return"
       /\ pre[t].is_recording
       /\ error[t] \in RemoteErrors
       /\ requests = 1

\* C12: no retry.  A recording session issues at most one transcription
\* request: the count of requests sent for the current session's audio starts
\* at 0, goes from 0 to 1 at most, and changes otherwise only by the reset
\* that begins the next session; whatever the first request's outcome, no
\* later toggle, settings save or quit sends the session's audio again.
C12_NoRetry ==
    /\ requests = 0
    /\ [][ requests' # requests =>
              \/ requests = 0 /\ requests' = 1
                   /\ \E t \in Threads : pc[t] = "stop_transcribe"
              \/ requests' = 0 /\ \E t \in Threads : pc[t] = "start_begin"
         ]_vars

\* C12's case: the session's request has been made, its audio is still in the
\* buffer, and a later toggle has called stop_recording, which returned
\* without sending anything.
C12_Witness ==
    \E t \in Threads :
       /\ pc[t] = "stop_return"
       /\ op[t] = "toggle_recording"
       /\ ~pre[t].is_recording
       /\ audio_data # <<>>
       /\ requests = 1
       /\ uploaded[t] = <<>>

\* C13 as stated: once a call of register_hotkey() has completed, exactly one
\* global hotkey binding is active and it is bound to the configured
\* combination, whatever that combination is.
C13_OneBinding ==
    (\A t \in Threads : pc[t] # "register_hotkey") =>
       /\ Len(hooks) = 1
       /\ hooks[1] = config["hotkey"]

\* C14: a load that follows a save of the loaded mapping (both documents
\* written) yields the mapping the first load yielded, for every pair of
\* documents, keys in the 'wrong' file included.
C14_RoundTrip ==
    [][ \A t \in Threads :
          (pc[t] = "reload_config" /\ pc'[t] # pc[t] /\ printed = <<>>) =>
             config' = config
      ]_vars

\* C14's case: a key the secret document held although it is not a secret key
\* has been loaded, saved to the general document and loaded again.
C14_Witness ==
    \E t \in Threads :
       /\ pc[t] = "done" /\ op[t] = "__init__"
       /\ printed = <<>>
       /\ "theme" \in DOMAIN config /\ config["theme"] = "b"
       /\ "theme" \in DOMAIN main_file[1] /\ main_file[1]["theme"] = "b"
       /\ "theme" \notin DOMAIN sensitive_file[1]

\* The value _load_config must give key k: the secret document's, else the
\* secret default, else the general document's, else the general default.
MergedValue(k) ==
    IF sensitive_file # NoFile /\ k \in DOMAIN sensitive_file[1] THEN sensitive_file[1][k]
    ELSE IF k \in {"hotkey", "api_key"} THEN ""
    ELSE IF main_file # NoFile /\ k \in DOMAIN main_file[1] THEN main_file[1][k]
    ELSE CASE k = "model" -> "whisper-1"
           [] k = "language" -> "en"
           [] k = "energy_threshold" -> "500"
           [] k = "record_timeout" -> "2.0"
           [] k = "phrase_timeout" -> "3.0"

\* C15: in the mapping _load_config returns, every key of the two documents
\* and of their defaults is present and the secret document's value (or
\* default) wins; and whenever _save_config writes a document, the secret
\* document gets exactly the keys hotkey and api_key of the mapping and the
\* general document exactly the others, each with the mapping's value.
C15_SecretWinsAndPartition ==
    /\ [](\A t \in Threads :
            pc[t] = "check_required_config" =>
               /\ DOMAIN config =
                    {"hotkey", "api_key", "model", "language", "energy_threshold",
                     "record_timeout", "phrase_timeout"}
                    \cup (IF main_file = NoFile THEN {} ELSE DOMAIN main_file[1])
                    \cup (IF sensitive_file = NoFile THEN {} ELSE DOMAIN sensitive_file[1])
               /\ \A k \in DOMAIN config : config[k] = MergedValue(k))
    /\ [][ /\ main_file' # main_file =>
                /\ DOMAIN main_file'[1] = (DOMAIN config) \ {"hotkey", "api_key"}
                /\ \A k \in DOMAIN main_file'[1] : main_file'[1][k] = config[k]
           /\ sensitive_file' # sensitive_file =>
                /\ DOMAIN sensitive_file'[1] = (DOMAIN config) \cap {"hotkey", "api_key"}
                /\ \A k \in DOMAIN sensitive_file'[1] : sensitive_file'[1][k] = config[k]
         ]_vars

\* C15's case: the hotkey was in both documents, the secret one's value was
\* loaded, and the save (whose general write failed, so that document is still
\* the one found at startup) wrote the secret document with the two secret keys.
C15_Witness ==
    \E t \in Threads :
       /\ pc[t] = "reload_config"
       /\ printed = <<MsgSaveMain>>
       /\ main_file # NoFile
       /\ "hotkey" \in DOMAIN main_file[1] /\ main_file[1]["hotkey"] = "a"
       /\ config["hotkey"] = "b"
       /\ "theme" \in DOMAIN config
       /\ sensitive_file # NoFile
       /\ DOMAIN sensitive_file[1] = {"hotkey", "api_key"}

\* A document that is absent or holds no entry.
AbsentOrEmpty(file) == file = NoFile \/ DOMAIN file[1] = {}

\* C16: once the startup check has run, the settings prompt is open whenever
\* the loaded api_key or hotkey is empty; and when both documents are absent
\* or empty the loaded mapping is the built-in default for every key (and so
\* the prompt is open).
C16_DefaultsAndPrompt ==
    \A t \in Threads :
       (pc[t] = "save_main" /\ op[t] = "__init__") =>
          /\ (config["api_key"] = "" \/ config["hotkey"] = "") => settings_open
          /\ (AbsentOrEmpty(main_file) /\ AbsentOrEmpty(sensitive_file)) =>
                /\ config = [model |-> "whisper-1", language |-> "en",
                             energy_threshold |-> "500", record_timeout |-> "2.0",
                             phrase_timeout |-> "3.0", hotkey |-> "", api_key |-> ""]
                /\ settings_open

\* C16's case: startup found an empty general document and no secret
\* document, and the check has opened the prompt.
C16_Witness ==
    \E t \in Threads :
       /\ pc[t] = "save_main" /\ op[t] = "__init__"
       /\ main_file # NoFile /\ DOMAIN main_file[1] = {}
       /\ sensitive_file = NoFile
       /\ settings_open

\* C17: a failing write does not leave _save_config: after the general write,
\* failed or not, the secret write is attempted, and after the secret write
\* the call returns; neither step raises, changes the in-memory mapping or the
\* other document, or ends the process.
C17_WriteFailureTolerated ==
    [][ \A t \in Threads :
          /\ (pc[t] = "save_main" /\ pc'[t] # pc[t]) =>
                /\ pc'[t] = "save_sensitive"
                /\ ret'[t].kind # "raise"
                /\ config' = config
                /\ sensitive_file' = sensitive_file
                /\ ~quit'
          /\ (pc[t] = "save_sensitive" /\ pc'[t] # pc[t]) =>
                /\ pc'[t] = "reload_config"
                /\ ret'[t].kind # "raise"
                /\ config' = config
                /\ main_file' = main_file
                /\ ~quit'
      ]_vars

\* C17's case: the general write failed, the secret document was written all
\* the same, and _save_config has returned.
C17_Witness ==
    \E t \in Threads :
       /\ pc[t] = "reload_config"
       /\ printed = <<MsgSaveMain>>
       /\ main_file # FileOf(MainPart(config))
       /\ sensitive_file = FileOf(SensitivePart(config))

\* C18 as stated: after the capture thread failed to open the input stream
\* (it reported the failure and left the recorder Idle), nothing lingers: the
\* very next hotkey toggle calls start_recording.
C18_NextToggleStarts ==
    [][ \A t \in Threads :
          (/\ pc[t] = "toggle_check" /\ pc'[t] # pc[t]
           /\ ~is_recording
           /\ recording_thread # None /\ wpc[recording_thread] = "dead"
           /\ Emitted("worker", Status(MsgStreamError))) =>
             pc'[t] = "start_check"
      ]_vars

\* C19: a toggle injects text only as the end of a session its stop_recording
\* completed: a stop_recording call returns a non-empty transcript only for
\* the session it ended, after the session's one request; the toggle that ran
\* it has written that transcript exactly once, and a toggle whose
\* stop_recording returned "" or raised has written nothing; nothing else is
\* ever written.
C19_TranscriptInjectedOnce ==
    /\ Len(written) <= 1
    /\ \A t \in Threads :
          (ret[t].kind = "text" /\ ret[t].text # <<>>) =>
             pre[t].is_recording /\ requests = 1 /\ uploaded[t] # <<>>
    /\ \A t \in Threads :
          (pc[t] = "done" /\ op[t] = "toggle_recording"
             /\ ret[t].kind \in {"text", "raise"}) =>
             written = IF ret[t].kind = "text" /\ ret[t].text # <<>>
                       THEN <<ret[t].text>> ELSE <<>>
    /\ written # <<>> =>
          \E t \in Threads :
             /\ pc[t] = "done" /\ op[t] = "toggle_recording"
             /\ ret[t].kind = "text" /\ written = <<ret[t].text>>

\* C19's case: a toggle has ended a session whose transcript came back as
\* " hi " and has written "hi" once.
C19_Witness ==
    \E t \in Threads :
       /\ pc[t] = "done" /\ op[t] = "toggle_recording"
       /\ pre[t].is_recording
       /\ ret[t] = RetText(<<"h", "i">>)
       /\ written = << <<"h", "i">> >>

\* A capture thread that has been started and has not ended.
Alive(w) == wpc[w] \in {"started", "streaming"}

\* The places where a controller thread is about to clear the chunk buffer
\* (l.225) or to read it (l.256, l.261).
BufferPcs == {"start_begin", "stop_read", "stop_write"}

\* C20 as stated: in every interleaving, a controller clears the chunk buffer
\* (start_recording) or reads it (stop_recording, after its join) only while
\* no capture thread is alive, and a capture thread appends to the buffer
\* only while no controller is clearing or reading it.
C20_BufferHandoff ==
    /\ [](\A t \in Threads : pc[t] \in BufferPcs => \A w \in Workers : ~Alive(w))
    /\ [][ Len(audio_data') > Len(audio_data) =>
              \A t \in Threads : pc[t] \notin BufferPcs ]_vars

\* C21 as stated: at every moment at most one capture thread is alive, and
\* every start_recording call that returns True has started exactly one.
C21_OneWorker ==
    /\ [](Cardinality({ w \in Workers : Alive(w) }) <= 1)
    /\ [][ \A t \in Threads :
             (pc[t] = "start_run" /\ pc'[t] = "start_return"
                /\ ret'[t] = RetBool(TRUE)) =>
                Cardinality({ w \in Workers :
                                wpc[w] = "created" /\ wpc'[w] = "started" }) = 1
         ]_vars

\* C22 as stated: under fair scheduling every stop_recording call that has
\* passed its guard and cleared the flag returns (unless the process exits
\* first), and the thread it joined has ended when it returns.
C22_StopReturns ==
    /\ \A t \in {"hotkey", "gui"} :
          (pc[t] = "stop_join") ~> (pc[t] = "stop_return" \/ quit)
    /\ [](\A t \in {"hotkey", "gui"} :
            (pc[t] = "stop_return" /\ joining[t] # None) => wpc[joining[t]] = "dead")

\* C23 as stated: whenever no toggle_recording call is in progress, the
\* application's own flag equals the recorder's flag.
C23_FlagsAgree ==
    (\A t \in Threads : op[t] # "toggle_recording") =>
        app_is_recording = is_recording

\* What save_settings may change through update_config: the configuration in
\* memory, the two documents, the hotkey binding, the recorder's client and
\* the recording state.
Settings == <<config, main_file, sensitive_file, hooks, client,
              is_recording, app_is_recording, audio_data, recording_thread>>

\* A step of the GUI thread that belongs to a save_settings call.
SaveStep == op'["gui"] = "save_settings" /\ pc'["gui"] # pc["gui"]

\* C24: a save_settings call whose key is not empty, whose probe failed and
\* whose 'Save Anyway?' was answered No returns having changed nothing of the
\* configuration, the documents, the binding, the client or the recording
\* state; a save_settings call changes any of them only after the probe
\* succeeded, for an empty key, or after the answer Yes.
C24_NoLeavesEverything ==
    [][ /\ (SaveStep /\ probe' = "failed" /\ response' = "No") =>
             /\ new_config'["api_key"] # ""
             /\ pc'["gui"] = "done"
             /\ UNCHANGED Settings
        /\ (SaveStep /\ Settings' # Settings) =>
             (probe' = "valid" \/ probe' = "no_key" \/ response' = "Yes")
      ]_vars

\* A recording is active, the user typed another hotkey and a key the probe
\* refused, and answered No: save_settings is over.
C24_Witness ==
    /\ op["gui"] = "save_settings" /\ pc["gui"] = "done"
    /\ probe = "failed" /\ response = "No"
    /\ new_config["api_key"] # config["api_key"]
    /\ new_config["hotkey"] # config["hotkey"]
    /\ is_recording
====
